---- MODULE Spec2Model ----
(***************************************************************************)
(* Canvas consistency and synchronization layer of mcp_excalidraw (Plait): *)
(*   - the client's push-channel supervisor   (frontend/src/App.tsx)       *)
(*   - the client's push-message handler, board and bulk upload            *)
(*   - the Binding Validator validateAndFixBindings (pure function)        *)
(*   - the Tool Bridge's CallTool handler     (index.ts, unnamed/part_001) *)
(* One set of variables, one specification per component.                  *)
(***************************************************************************)
EXTENDS Integers, Sequences, FiniteSets, TLC

VARIABLES
    \* ---- Connection Supervisor (App.tsx 152-211)
    sockets,        \* every WebSocket created so far: [readyState, closeCode]
    websocketRef,   \* websocketRef.current: 0 = null, else an index of sockets
    isConnected,    \* React state isConnected
    timers,         \* pending setTimeout(connectWebSocket, d): the delays d
    effect,         \* the useEffect of App: "pending" | "mounted" | "cleaned"
    wsEvent,        \* the socket event dispatched by the last step
    \* ---- message handler, board, bulk upload (App.tsx 153-154, 213-304)
    boardRef,       \* boardRef.current is set (afterInit ran)
    board,          \* boardRef.current.children
    elements,       \* React state elements
    delivered,      \* the push message the last step handled, if it handled one
    syncStatus,     \* React state syncStatus
    lastSyncTime,   \* React state lastSyncTime: 0 = null, else the sync that set it
    syncCalls,      \* the calls of syncToBackend so far: [pc, ok]
    resetTimers,    \* pending setTimeout(() => setSyncStatus("idle"), d)
    upload,         \* body of the last POST /api/elements/sync: [sent, elements]
    \* ---- Binding Validator runs (App.tsx 80-129)
    batch,          \* the input batch
    fixed,          \* validateAndFixBindings(batch)
    refixed,        \* validateAndFixBindings(fixed)
    fixPc,          \* "input" | "fixed" | "refixed"
    \* ---- Tool Bridge (part_001 594-668, 860-937)
    ENABLE_CANVAS_SYNC, \* process.env.ENABLE_CANVAS_SYNC !== "false"
    toolPc,         \* position of the CallTool handler: "idle" | "fetch" | "json"
    request,        \* request.params of the call being handled / last handled
    result,         \* what the handler returned for it
    httpRequests,   \* the HTTP requests made for it, each with its outcome
    \* ---- Element Repository (the canvas server)
    repository,     \* the elements it stores, in the order they were created
    \* ---- the Binding Validator run on objects (App.tsx 80-129)
    heap,           \* the JavaScript objects: address -> array or element
    returnedRef,    \* address of the array the validator returned, 0 before
    \* ---- validateElement (part_001 164-187)
    candidate,      \* the element it is called with
    verdict,        \* what the call did: returned true, or threw
    elementsMap,    \* the Map elements of line 165: the ids it holds
    \* ---- clearCanvas (App.tsx 306-324)
    clearCall       \* the call of clearCanvas: [pc, elements]

wsVars     == <<sockets, websocketRef, isConnected, timers, effect, wsEvent>>
boardVars  == <<boardRef, board, elements, delivered, syncStatus, lastSyncTime,
                syncCalls, resetTimers, upload>>
fixVars    == <<batch, fixed, refixed, fixPc>>
bridgeVars == <<ENABLE_CANVAS_SYNC, toolPc, request, result, httpRequests>>
serverVars == <<repository>>
heapVars   == <<heap, returnedRef>>
validVars  == <<candidate, verdict, elementsMap>>
clearVars  == <<clearCall>>
vars       == <<wsVars, boardVars, fixVars, bridgeVars, serverVars, heapVars,
                validVars, clearVars>>

(***************************************************************************)
(* JavaScript values.  undefined (an absent field) and null are two        *)
(* markers; ids are strings; "" is the empty string.                       *)
(***************************************************************************)
Undefined == "<undefined>"
Null      == "<null>"

\* JavaScript truthiness of a string-or-absent value: undefined, null and ""
\* are falsy.
Truthy(v) == v \notin {Undefined, Null, ""}

\* ---- bounds of the model
MaxBatch   == 2     \* longest batch given to the validator
MaxSockets == 3     \* WebSockets created in one run
MaxBoard   == 2     \* board children in one run
MaxSyncs   == 2     \* calls of syncToBackend in one run

(***************************************************************************)
(* Binding Validator: App.tsx 80-129                                       *)
(***************************************************************************)
\* A boundElements value: absent, null, a truthy non-array ("other"), or an
\* array of entries.  An entry is an object {id, type} (a missing or empty
\* id / type is "") or not an object at all ("other": null, a primitive).
BE(tag, items) == [tag |-> tag, items |-> items]
BEUndefined == BE("undefined", <<>>)
BENull      == BE("null", <<>>)
BEOther     == BE("other", <<>>)
BEArray(items) == BE("array", items)
Binding(id, type) == [tag |-> "object", id |-> id, type |-> type]
NonObjectBinding  == [tag |-> "other", id |-> "", type |-> ""]

\* if (fixedElement.boundElements): [] is truthy, null and undefined are not
BETruthy(be) == be.tag \in {"other", "array"}
\* Array.isArray
IsArray(be) == be.tag = "array"

\* new Map(elements.map((el) => [el.id!, el])): the last element of an id wins
ElementMap(els) ==
    [k \in {els[i].id : i \in DOMAIN els} |->
        els[CHOOSE i \in DOMAIN els :
                /\ els[i].id = k
                /\ \A j \in DOMAIN els : j > i => els[j].id /= k]]

\* elementMap.get(k) is truthy: the map holds an element (an object) under k
MapHas(m, k) == k \in DOMAIN m

\* the filter callback of lines 92-105
KeepBinding(binding, elementMap) ==
    /\ binding.tag = "object"                         \* 94
    /\ binding.id /= "" /\ binding.type /= ""         \* 95
    /\ MapHas(elementMap, binding.id)                 \* 98-99
    /\ binding.type \in {"text", "arrow"}             \* 102

\* A plausible slip: keeps a non-array boundElements by wrapping it in a list.
FixBoundElementsWrap(be, elementMap) ==
    IF ~BETruthy(be) THEN be
    ELSE IF IsArray(be)
         THEN LET Keep(b) == KeepBinding(b, elementMap)
                  kept == SelectSeq(be.items, Keep)
              IN  IF Len(kept) = 0 THEN BENull ELSE BEArray(kept)
         ELSE BEArray(<<NonObjectBinding>>)

\* A plausible slip: the existence check of lines 98-99 is left out.
FixBoundElementsNoLookup(be, elementMap) ==
    IF ~BETruthy(be) THEN be
    ELSE IF IsArray(be)
         THEN LET Keep(b) == /\ b.tag = "object"
                             /\ b.id /= "" /\ b.type /= ""
                             /\ b.type \in {"text", "arrow"}
                  kept == SelectSeq(be.items, Keep)
              IN  IF Len(kept) = 0 THEN BENull ELSE BEArray(kept)
         ELSE BENull

\* A plausible slip: the length check of lines 109-111 is left out.
FixBoundElementsKeepEmpty(be, elementMap) ==
    IF ~BETruthy(be) THEN be
    ELSE IF IsArray(be)
         THEN LET Keep(b) == KeepBinding(b, elementMap)
              IN  BEArray(SelectSeq(be.items, Keep))
         ELSE BENull

\* A plausible slip: the type check of line 102 is left out.
FixBoundElementsAnyType(be, elementMap) ==
    IF ~BETruthy(be) THEN be
    ELSE IF IsArray(be)
         THEN LET Keep(b) == /\ b.tag = "object"
                             /\ b.id /= "" /\ b.type /= ""
                             /\ MapHas(elementMap, b.id)
                  kept == SelectSeq(be.items, Keep)
              IN  IF Len(kept) = 0 THEN BENull ELSE BEArray(kept)
         ELSE BENull

\* lines 89-116
FixBoundElements(be, elementMap) ==
    IF ~BETruthy(be) THEN be
    ELSE IF IsArray(be)
         THEN LET Keep(b) == KeepBinding(b, elementMap)
                  kept == SelectSeq(be.items, Keep)
              IN  IF Len(kept) = 0 THEN BENull ELSE BEArray(kept)
         ELSE BENull

\* lines 119-125
FixContainerId(containerId, elementMap) ==
    IF Truthy(containerId) /\ ~MapHas(elementMap, containerId)
    THEN Null
    ELSE containerId

\* A plausible slip: an arrow-line's dangling source.boundId is repaired too.
validateAndFixBindingsEndpoints(els) ==
    LET elementMap == ElementMap(els)
    IN  [i \in DOMAIN els |->
            [els[i] EXCEPT
                !.boundElements = FixBoundElements(@, elementMap),
                !.containerId   = FixContainerId(@, elementMap),
                !.boundId       = FixContainerId(@, elementMap)]]

\* lines 80-129
validateAndFixBindings(els) ==
    LET elementMap == ElementMap(els)
    IN  [i \in DOMAIN els |->
            [els[i] EXCEPT
                !.boundElements = FixBoundElements(@, elementMap),
                !.containerId   = FixContainerId(@, elementMap)]]

\* ---- the batches the validator is run on
Ids == {"a", "b"}

\* An element as the validator sees it: id, the two repaired fields, and the
\* arrow-line endpoint reference source.boundId, which it must leave alone.
El(id, be, containerId, boundId) ==
    [id |-> id, boundElements |-> be, containerId |-> containerId,
     boundId |-> boundId]

BoundElementsSamples ==
    { BEUndefined, BENull, BEOther, BEArray(<<>>),
      BEArray(<<Binding("a", "text")>>),
      BEArray(<<Binding("b", "arrow"), Binding("a", "video")>>),
      BEArray(<<NonObjectBinding, Binding("", "text"), Binding("a", "")>>),
      BEArray(<<Binding("b", "video"), Binding("a", "arrow"), Binding("b", "text")>>) }

ContainerIdSamples == {Undefined, Null, "", "a", "b"}

FieldSamples ==
    {<<be, Undefined, Undefined>> : be \in BoundElementsSamples}
    \cup {<<BEUndefined, c, Undefined>> : c \in ContainerIdSamples}
    \cup { <<BEArray(<<Binding("b", "text")>>), "b", "b">>,
           <<BEOther, "a", "a">> }

BatchElements == {El(i, f[1], f[2], f[3]) : i \in Ids, f \in FieldSamples}

RECURSIVE SeqsUpTo(_, _)
SeqsUpTo(S, n) ==
    IF n = 0 THEN {<<>>}
    ELSE LET shorter == SeqsUpTo(S, n - 1)
         IN  shorter \cup {Append(s, x) : s \in {t \in shorter : Len(t) = n - 1}, x \in S}

Batches == SeqsUpTo(BatchElements, MaxBatch)

\* The validator is run on a batch, and again on its own output.
Validate ==
    /\ fixPc = "input"
    /\ fixed' = validateAndFixBindings(batch)
    /\ fixPc' = "fixed"
    /\ UNCHANGED <<batch, refixed>>
    /\ UNCHANGED <<wsVars, boardVars, bridgeVars, serverVars, heapVars,
                 validVars, clearVars>>

Revalidate ==
    /\ fixPc = "fixed"
    /\ refixed' = validateAndFixBindings(fixed)
    /\ fixPc' = "refixed"
    /\ UNCHANGED <<batch, fixed>>
    /\ UNCHANGED <<wsVars, boardVars, bridgeVars, serverVars, heapVars,
                 validVars, clearVars>>

FixIdle == batch = <<>> /\ fixed = <<>> /\ refixed = <<>> /\ fixPc = "input"
(***************************************************************************)
(* The Binding Validator on JavaScript objects: the same lines 80-129,     *)
(* statement by statement, on a heap of arrays and element objects, so     *)
(* that which object each assignment writes to is part of the model.       *)
(***************************************************************************)
HeapArray(items) == [kind |-> "array", items |-> items]
NullRef == [tag |-> "null", ref |-> 0]
\* an element object; an array boundElements is a reference to the list
HeapElement(el, listRef) ==
    [kind |-> "element", id |-> el.id,
     boundElements |-> IF IsArray(el.boundElements)
                       THEN [tag |-> "ref", ref |-> listRef]
                       ELSE [tag |-> el.boundElements.tag, ref |-> 0],
     containerId |-> el.containerId, boundId |-> el.boundId]

\* address of the array passed as the parameter elements
InputRef == 1

\* the caller's objects for a batch: the array at InputRef, element i at
\* InputRef + i, its boundElements list (if it is a list) behind the elements
Load(els) ==
    LET n == Len(els)
        listed == {i \in 1..n : IsArray(els[i].boundElements)}
    IN  [a \in {InputRef} \cup {InputRef + i : i \in 1..n}
                \cup {InputRef + n + i : i \in listed} |->
            IF a = InputRef THEN HeapArray([i \in 1..n |-> InputRef + i])
            ELSE IF a <= InputRef + n THEN HeapElement(els[a - InputRef], a + n)
            ELSE HeapArray(els[a - InputRef - n].boundElements.items)]

\* the batch that the array at address arr holds
Deref(h, arr) ==
    [i \in DOMAIN h[arr].items |->
        LET o == h[h[arr].items[i]]
        IN  El(o.id,
               IF o.boundElements.tag = "ref"
               THEN BEArray(h[o.boundElements.ref].items)
               ELSE BE(o.boundElements.tag, <<>>),
               o.containerId, o.boundId)]

\* an object is allocated, or a field of an object assigned
Put(h, a, v) == [x \in DOMAIN h \cup {a} |-> IF x = a THEN v ELSE h[x]]

\* A plausible slip: const fixedElement = element, the input object itself.
FixedElementAlias(ref, fresh) == ref

\* line 86: const fixedElement = { ...element } is a new object
FixedElement(ref, fresh) == fresh

\* lines 85-128: the map callback run on the element at ref; fresh and
\* freshList are the addresses the next two allocations get
FixOnHeap(h, ref, fresh, freshList, elementMap) ==
    LET fixedElement == FixedElement(ref, fresh)
        h1 == Put(h, fixedElement, h[ref])                            \* 86
        be == h1[fixedElement].boundElements
        h2 == IF be.tag \in {"undefined", "null"} THEN h1             \* 89
              ELSE IF be.tag = "ref"                                  \* 90
              THEN LET Keep(b) == KeepBinding(b, elementMap)
                       \* 91-106: filter returns a new array
                       kept == SelectSeq(h1[be.ref].items, Keep)
                       h1a == Put(h1, freshList, HeapArray(kept))
                       h1b == Put(h1a, fixedElement,
                                  [h1a[fixedElement] EXCEPT
                                      !.boundElements = [tag |-> "ref", ref |-> freshList]])
                   IN  IF Len(kept) = 0                               \* 109-111
                       THEN Put(h1b, fixedElement,
                                [h1b[fixedElement] EXCEPT !.boundElements = NullRef])
                       ELSE h1b
              ELSE Put(h1, fixedElement,                              \* 114
                       [h1[fixedElement] EXCEPT !.boundElements = NullRef])
        containerId == h2[fixedElement].containerId
        h3 == IF Truthy(containerId) /\ ~MapHas(elementMap, containerId)  \* 119-125
              THEN Put(h2, fixedElement,
                       [h2[fixedElement] EXCEPT !.containerId = Null])
              ELSE h2
    IN  [heap |-> h3, ref |-> fixedElement]

\* line 85, elements.map: the callback on element i, i + 1, ... in turn
RECURSIVE MapOnHeap(_, _, _, _)
MapOnHeap(h, i, refs, elementMap) ==
    LET n == Len(h[InputRef].items)
        base == InputRef + 2 * n
    IN  IF i > n THEN [heap |-> h, refs |-> refs]
        ELSE LET r == FixOnHeap(h, h[InputRef].items[i], base + i,
                                base + n + i, elementMap)
             IN  MapOnHeap(r.heap, i + 1, Append(refs, r.ref), elementMap)

\* lines 80-129: the call validateAndFixBindings(elements)
ValidateOnHeap ==
    /\ returnedRef = 0
    /\ LET n == Len(heap[InputRef].items)
           elementMap == ElementMap(Deref(heap, InputRef))            \* 83
           r == MapOnHeap(heap, 1, <<>>, elementMap)
           out == InputRef + 4 * n + 1
       IN  /\ heap' = Put(r.heap, out, HeapArray(r.refs))
           /\ returnedRef' = out
    /\ UNCHANGED <<wsVars, boardVars, fixVars, bridgeVars, serverVars,
                 validVars, clearVars>>

HeapIdle == heap = <<>> /\ returnedRef = 0
(***************************************************************************)
(* Connection Supervisor: App.tsx 152-211                                  *)
(*                                                                         *)
(* The browser's WebSocket: readyState goes CONNECTING -> OPEN -> CLOSING  *)
(* -> CLOSED.  A failed connection is closed with an error event followed  *)
(* by a close event of code 1006; close() without a code on an open socket *)
(* ends in a close event of code 1005; a server's close frame carries the  *)
(* server's code.                                                          *)
(***************************************************************************)
ReconnectDelay == 3000
CleanClose     == 1000
ServerCloseCodes == {1000, 1001}   \* normal closure, going away
NoStatusCode   == 1005             \* close() was called without a code
AbnormalCode   == 1006             \* the connection failed

\* wasOpen: the handshake completed; closeEv: the code of the close event
\* that the browser has queued behind an error event (0: none)
Socket(readyState, wasOpen, closeEv) ==
    [readyState |-> readyState, wasOpen |-> wasOpen, closeEv |-> closeEv]

Event(kind, sock, code) == [kind |-> kind, sock |-> sock, code |-> code]
NoEvent == Event("none", 0, 0)

Live(s) == sockets[s].readyState \in {"CONNECTING", "OPEN"}

\* A plausible slip: the close code is not looked at.
ReconnectTimersAlways(code) == Append(timers, ReconnectDelay)

\* lines 201-204: the timers after onclose ran for a close event of this code
ReconnectTimers(code) ==
    IF code /= CleanClose THEN Append(timers, ReconnectDelay) ELSE timers

\* lines 198-205, websocketRef.current.onclose
onclose(s, code) ==
    /\ isConnected' = FALSE
    /\ timers' = ReconnectTimers(code)
    /\ wsEvent' = Event("close", s, code)

\* lines 173-178: the guard of connectWebSocket
ConnectReturnsEarly ==
    websocketRef /= 0 /\ sockets[websocketRef].readyState = "OPEN"

\* lines 172-211, connectWebSocket: the new socket gets the four handlers
connectWebSocket ==
    IF ConnectReturnsEarly
    THEN UNCHANGED <<sockets, websocketRef>>
    ELSE /\ Len(sockets) < MaxSockets
         /\ sockets' = Append(sockets, Socket("CONNECTING", FALSE, 0))
         /\ websocketRef' = Len(sockets) + 1

\* lines 163-164: the effect runs on mount
Mount ==
    /\ effect = "pending"
    /\ effect' = "mounted"
    /\ connectWebSocket
    /\ wsEvent' = Event("mount", 0, 0)
    /\ UNCHANGED <<isConnected, timers>>
    /\ UNCHANGED <<boardVars, fixVars, bridgeVars, serverVars, heapVars,
                 validVars, clearVars>>

\* WebSocket.close(): nothing on a closing or closed socket; a connecting
\* socket is failed; an open one starts the closing handshake
close(s) ==
    IF Live(s)
    THEN sockets' = [sockets EXCEPT ![s].readyState = "CLOSING"]
    ELSE UNCHANGED sockets

\* lines 165-169: the effect's cleanup
Cleanup ==
    /\ effect = "mounted"
    /\ effect' = "cleaned"
    /\ IF websocketRef /= 0 THEN close(websocketRef) ELSE UNCHANGED sockets
    /\ wsEvent' = Event("cleanup", 0, 0)
    /\ UNCHANGED <<websocketRef, isConnected, timers>>
    /\ UNCHANGED <<boardVars, fixVars, bridgeVars, serverVars, heapVars,
                 validVars, clearVars>>

\* lines 163-164: the effect runs again on the same component (its refs and
\* state are kept), as React does after a cleanup in development
Rerun ==
    /\ effect = "cleaned"
    /\ effect' = "mounted"
    /\ connectWebSocket
    /\ wsEvent' = Event("mount", 0, 0)
    /\ UNCHANGED <<isConnected, timers>>
    /\ UNCHANGED <<boardVars, fixVars, bridgeVars, serverVars, heapVars,
                 validVars, clearVars>>

\* lines 185-187: the handshake completes and onopen runs
OnOpen(s) ==
    /\ sockets[s].readyState = "CONNECTING"
    /\ sockets' = [sockets EXCEPT ![s].readyState = "OPEN", ![s].wasOpen = TRUE]
    /\ isConnected' = TRUE
    /\ wsEvent' = Event("open", s, 0)
    /\ UNCHANGED <<websocketRef, timers, effect>>
    /\ UNCHANGED <<boardVars, fixVars, bridgeVars, serverVars, heapVars,
                 validVars, clearVars>>

\* lines 207-210: the connection fails (refused, lost, or closed by close()
\* before it was established); the browser fires error, then close 1006
OnError(s) ==
    /\ \/ Live(s)
       \/ sockets[s].readyState = "CLOSING"
    /\ sockets[s].closeEv = 0
    /\ sockets' = [sockets EXCEPT ![s].readyState = "CLOSED",
                                  ![s].closeEv = AbnormalCode]
    /\ isConnected' = FALSE
    /\ wsEvent' = Event("error", s, 0)
    /\ UNCHANGED <<websocketRef, timers, effect>>
    /\ UNCHANGED <<boardVars, fixVars, bridgeVars, serverVars, heapVars,
                 validVars, clearVars>>

\* lines 198-205: the close event that follows an error event
OnCloseAfterError(s) ==
    /\ sockets[s].closeEv /= 0
    /\ sockets' = [sockets EXCEPT ![s].closeEv = 0]
    /\ onclose(s, sockets[s].closeEv)
    /\ UNCHANGED <<websocketRef, effect>>
    /\ UNCHANGED <<boardVars, fixVars, bridgeVars, serverVars, heapVars,
                 validVars, clearVars>>

\* lines 198-205: the server closes an open socket with its code
OnServerClose(s, code) ==
    /\ sockets[s].readyState = "OPEN"
    /\ sockets' = [sockets EXCEPT ![s].readyState = "CLOSED"]
    /\ onclose(s, code)
    /\ UNCHANGED <<websocketRef, effect>>
    /\ UNCHANGED <<boardVars, fixVars, bridgeVars, serverVars, heapVars,
                 validVars, clearVars>>

\* lines 198-205: the closing handshake started by close() on an open socket
\* completes
OnClientClose(s) ==
    /\ sockets[s].readyState = "CLOSING"
    /\ sockets[s].wasOpen
    /\ sockets[s].closeEv = 0
    /\ sockets' = [sockets EXCEPT ![s].readyState = "CLOSED"]
    /\ onclose(s, NoStatusCode)
    /\ UNCHANGED <<websocketRef, effect>>
    /\ UNCHANGED <<boardVars, fixVars, bridgeVars, serverVars, heapVars,
                 validVars, clearVars>>

\* line 203: a reconnect timer fires and calls connectWebSocket
TimerFires ==
    /\ timers /= <<>>
    /\ timers' = Tail(timers)
    /\ connectWebSocket
    /\ wsEvent' = Event("timer", 0, 0)
    /\ UNCHANGED <<isConnected, effect>>
    /\ UNCHANGED <<boardVars, fixVars, bridgeVars, serverVars, heapVars,
                 validVars, clearVars>>

WsIdle ==
    /\ sockets = <<>>
    /\ websocketRef = 0
    /\ isConnected = FALSE
    /\ timers = <<>>
    /\ effect = "pending"
    /\ wsEvent = NoEvent
(***************************************************************************)
(* Push-message handler, board and bulk upload: App.tsx 131-150, 189-304   *)
(***************************************************************************)
\* A text: absent, a plain string (as the server sends it), or the paragraph
\* node buildText makes of a string and an alignment.
Text(kind, str, align) == [kind |-> kind, str |-> str, align |-> align]
TextUndefined  == Text("undefined", "", "")
TextString(s)  == Text("string", s, "")
\* @plait/common buildText(text, align): a paragraph node holding the text
buildText(str, align) == Text("paragraph", str, align)

\* texts of an arrow-line: absent, or a list of {text, position}
TextsUndefined == [tag |-> "undefined", items |-> <<>>]
Texts(items)   == [tag |-> "array", items |-> items]

\* source: absent, the server's origin tag, or an arrow-line's start handle
SourceUndefined    == [tag |-> "undefined", origin |-> "", boundId |-> "", marker |-> ""]
SourceOrigin(o)    == [tag |-> "origin", origin |-> o, boundId |-> "", marker |-> ""]
SourceHandle(b, m) == [tag |-> "handle", origin |-> "", boundId |-> b, marker |-> m]

\* no element: data.element of a message without one, and what
\* convertPlaitElement returns for a type it does not convert
UndefinedElement ==
    [id |-> Undefined, type |-> Undefined, text |-> TextUndefined,
     textAlign |-> Undefined, texts |-> TextsUndefined,
     boundElements |-> BEUndefined, containerId |-> Undefined,
     source |-> SourceUndefined, isDeleted |-> FALSE,
     createdAt |-> Undefined, updatedAt |-> Undefined, version |-> Undefined,
     syncedAt |-> Undefined, syncTimestamp |-> Undefined]

\* ---- the elements the server pushes in this model
\* a stamped geometry whose container and bound text are not on the canvas
G1 == [UndefinedElement EXCEPT
        !.id = "a", !.type = "geometry", !.text = TextString("A"),
        !.textAlign = "left", !.containerId = "z",
        !.boundElements = BEArray(<<Binding("z", "text")>>),
        !.source = SourceOrigin("mcp"),
        !.createdAt = "t1", !.updatedAt = "t1", !.version = "1"]
\* an arrow-line that starts at element a
A1 == [UndefinedElement EXCEPT
        !.id = "c", !.type = "arrow-line",
        !.texts = Texts(<<[text |-> TextString("t"), position |-> "0.5"]>>),
        !.source = SourceHandle("a", "none")]
\* a freehand stroke
F1 == [UndefinedElement EXCEPT !.id = "d", !.type = "freehand"]
ServerElements == {G1, A1, F1}

\* an element the user draws on the board
L1 == [UndefinedElement EXCEPT
        !.id = "l", !.type = "geometry", !.text = buildText("L", "center")]
LocalElements == {L1}

\* @plait/core idCreator(): a random id; it may even repeat a server's id
IdCreatorIds == {"p", "a"}

\* ---- push messages: event.data, JSON or not
Message(json, type, element) == [json |-> json, type |-> type, element |-> element]
NoMessage == Message(FALSE, "none", [id |-> Undefined])
NotJSON   == Message(FALSE, Undefined, UndefinedElement)
Messages ==
    {NotJSON}
    \cup {Message(TRUE, "element_created", e) : e \in ServerElements \cup {UndefinedElement}}
    \cup {Message(TRUE, t, UndefinedElement) :
            t \in {"elements_synced", "sync_status", "initial_elements",
                   "element_deleted"}}

\* lines 64-77, cleanElementForPlait: the element without the six bookkeeping
\* fields.  No line of App.tsx calls it.
cleanElementForPlait(element) ==
    [element EXCEPT
        !.createdAt = Undefined, !.updatedAt = Undefined,
        !.version = Undefined, !.syncedAt = Undefined,
        !.source = SourceUndefined, !.syncTimestamp = Undefined]

\* lines 131-150, convertPlaitElement, with the id that idCreator() returned
convertPlaitElement(element, newId) ==
    IF element.type = "geometry"
    THEN [element EXCEPT
            !.id = newId,
            !.text = buildText(IF element.text.kind = "undefined"
                                    \/ element.text.str = ""
                               THEN "" ELSE element.text.str,
                               IF Truthy(element.textAlign)
                               THEN element.textAlign ELSE "center")]
    ELSE IF element.type = "arrow-line"
    THEN [element EXCEPT
            !.id = newId,
            !.texts = IF @.tag = "undefined" THEN @
                      ELSE Texts([i \in DOMAIN @.items |->
                                [@.items[i] EXCEPT
                                    !.text = buildText(
                                        IF @.kind = "undefined" THEN "" ELSE @.str,
                                        Undefined)]])]
    ELSE UndefinedElement

\* A plausible slip: a missing data.element is passed on instead of throwing.
CreatedThrowsBoardOnly(data) == ~boardRef

\* the element_created case throws (and line 239 catches): data.element is
\* absent (line 134 reads its type) or boardRef.current is null (line 221)
CreatedThrows(data) == data.element = UndefinedElement \/ ~boardRef

\* A plausible slip: elements_synced is applied as a remote change, the board
\* replaced by what the client uploaded.
handleWebSocketMessageEcho(data, newId, insertThrows) ==
    IF data.type = "element_created" /\ ~CreatedThrows(data)
    THEN LET element == convertPlaitElement(data.element, newId)
         IN  IF element = UndefinedElement /\ insertThrows
             THEN UNCHANGED board
             ELSE /\ Len(board) < MaxBoard
                  /\ board' = Append(board, element)
    ELSE IF data.type = "elements_synced"
    THEN board' = upload.elements
    ELSE UNCHANGED board

\* lines 213-242, handleWebSocketMessage.  Transforms.insertNode is given
\* whatever convertPlaitElement returned; given undefined, the library either
\* throws (caught at 239) or inserts the undefined child.
handleWebSocketMessage(data, newId, insertThrows) ==
    IF data.type = "element_created" /\ ~CreatedThrows(data)
    THEN LET element == convertPlaitElement(data.element, newId)
         IN  IF element = UndefinedElement /\ insertThrows
             THEN UNCHANGED board
             ELSE /\ Len(board) < MaxBoard
                  /\ board' = Append(board, element)
    ELSE UNCHANGED board

\* lines 189-196, onmessage of an open socket
OnMessage(raw, newId, insertThrows) ==
    /\ \E s \in DOMAIN sockets : sockets[s].readyState = "OPEN"
    /\ delivered' = raw
    /\ IF raw.json
       THEN handleWebSocketMessage(raw, newId, insertThrows)
       ELSE UNCHANGED board
    /\ UNCHANGED <<boardRef, elements, syncStatus, lastSyncTime, syncCalls,
                   resetTimers, upload>>
    /\ UNCHANGED <<wsVars, fixVars, bridgeVars, serverVars, heapVars,
                 validVars, clearVars>>

\* lines 380-382, afterInit
afterInit ==
    /\ ~boardRef
    /\ boardRef' = TRUE
    /\ UNCHANGED <<board, elements, syncStatus, lastSyncTime,
                   syncCalls, resetTimers, upload>>
    /\ delivered' = NoMessage
    /\ UNCHANGED <<wsVars, fixVars, bridgeVars, serverVars, heapVars,
                 validVars, clearVars>>

\* DrawnixWrapper 20-28: the user draws on the board; onChange is
\* (value) => {}, so the React state elements is not told
LocalDraw(e) ==
    /\ boardRef
    /\ Len(board) < MaxBoard
    /\ board' = Append(board, e)
    /\ UNCHANGED <<boardRef, elements, syncStatus, lastSyncTime,
                   syncCalls, resetTimers, upload>>
    /\ delivered' = NoMessage
    /\ UNCHANGED <<wsVars, fixVars, bridgeVars, serverVars, heapVars,
                 validVars, clearVars>>

\* line 270
ActiveElements(els) == LET Active(el) == ~el.isDeleted IN SelectSeq(els, Active)

\* lines 245-249: a shallow copy
convertToBackendFormat(element) == element

\* lines 270-273
BackendElements(els) ==
    LET active == ActiveElements(els)
    IN  [i \in DOMAIN active |-> convertToBackendFormat(active[i])]

\* body of the POST of lines 276-285; nothing was sent yet
Uploaded(els) == [sent |-> TRUE, elements |-> els]
NoUpload == [sent |-> FALSE, elements |-> <<>>]

ResetDelay == 2000
\* one call of syncToBackend: where it is, and, once the response has arrived,
\* its status (response.ok) and whether its body is JSON
SyncCall(pc, ok, parses) == [pc |-> pc, ok |-> ok, parses |-> parses]

\* lines 262-285: the button (disabled while syncing, line 348) is clicked;
\* syncToBackend runs up to its fetch
syncToBackend ==
    /\ syncStatus /= "syncing"
    /\ Len(syncCalls) < MaxSyncs
    /\ syncStatus' = "syncing"
    /\ upload' = Uploaded(BackendElements(elements))
    /\ syncCalls' = Append(syncCalls, SyncCall("fetch", FALSE, FALSE))
    /\ UNCHANGED <<boardRef, board, elements, lastSyncTime, resetTimers>>
    /\ delivered' = NoMessage
    /\ UNCHANGED <<wsVars, fixVars, bridgeVars, serverVars, heapVars,
                 validVars, clearVars>>

\* lines 276, 300-303: fetch rejects
SyncFetchRejects(n) ==
    /\ syncCalls[n].pc = "fetch"
    /\ syncCalls' = [syncCalls EXCEPT ![n] = SyncCall("done", FALSE, FALSE)]
    /\ syncStatus' = "error"
    /\ UNCHANGED <<boardRef, board, elements, lastSyncTime,
                   resetTimers, upload>>
    /\ delivered' = NoMessage
    /\ UNCHANGED <<wsVars, fixVars, bridgeVars, serverVars, heapVars,
                 validVars, clearVars>>

\* lines 276-287: fetch resolves with a response: response.ok = ok, and a
\* body that is JSON or is not
SyncFetchResolves(n, ok, parses) ==
    /\ syncCalls[n].pc = "fetch"
    /\ syncCalls' = [syncCalls EXCEPT ![n] = SyncCall("json", ok, parses)]
    /\ UNCHANGED <<boardRef, board, elements, syncStatus,
                   lastSyncTime, resetTimers, upload>>
    /\ delivered' = NoMessage
    /\ UNCHANGED <<wsVars, fixVars, bridgeVars, serverVars, heapVars,
                 validVars, clearVars>>

\* lines 288-299: response.json() resolves
SyncJsonResolves(n) ==
    /\ syncCalls[n].pc = "json"
    /\ syncCalls[n].parses
    /\ syncCalls' = [syncCalls EXCEPT ![n] = SyncCall("done", FALSE, FALSE)]
    /\ IF syncCalls[n].ok
       THEN /\ syncStatus' = "success"
            /\ lastSyncTime' = n
            /\ resetTimers' = Append(resetTimers, ResetDelay)
       ELSE /\ syncStatus' = "error"
            /\ UNCHANGED <<lastSyncTime, resetTimers>>
    /\ UNCHANGED <<boardRef, board, elements, upload>>
    /\ delivered' = NoMessage
    /\ UNCHANGED <<wsVars, fixVars, bridgeVars, serverVars, heapVars,
                 validVars, clearVars>>

\* A plausible slip: response.json() is awaited outside the try, so its
\* rejection escapes and the status is left as it was.
SyncJsonRejectsUncaught(n) ==
    /\ syncCalls[n].pc = "json"
    /\ ~syncCalls[n].parses
    /\ syncCalls' = [syncCalls EXCEPT ![n] = SyncCall("done", FALSE, FALSE)]
    /\ UNCHANGED <<boardRef, board, elements, syncStatus, lastSyncTime,
                   resetTimers, upload>>
    /\ delivered' = NoMessage
    /\ UNCHANGED <<wsVars, fixVars, bridgeVars, serverVars, heapVars,
                 validVars, clearVars>>

\* lines 288, 296, 300-303: response.json() rejects
SyncJsonRejects(n) ==
    /\ syncCalls[n].pc = "json"
    /\ ~syncCalls[n].parses
    /\ syncCalls' = [syncCalls EXCEPT ![n] = SyncCall("done", FALSE, FALSE)]
    /\ syncStatus' = "error"
    /\ UNCHANGED <<boardRef, board, elements, lastSyncTime,
                   resetTimers, upload>>
    /\ delivered' = NoMessage
    /\ UNCHANGED <<wsVars, fixVars, bridgeVars, serverVars, heapVars,
                 validVars, clearVars>>

\* line 294: the reset timer of a successful sync fires
ResetTimerFires ==
    /\ resetTimers /= <<>>
    /\ resetTimers' = Tail(resetTimers)
    /\ syncStatus' = "idle"
    /\ UNCHANGED <<boardRef, board, elements, lastSyncTime,
                   syncCalls, upload>>
    /\ delivered' = NoMessage
    /\ UNCHANGED <<wsVars, fixVars, bridgeVars, serverVars, heapVars,
                 validVars, clearVars>>


BoardIdle ==
    /\ boardRef = FALSE
    /\ board = <<>>
    /\ elements = <<>>
    /\ delivered = NoMessage
    /\ syncStatus = "idle"
    /\ lastSyncTime = 0
    /\ syncCalls = <<>>
    /\ resetTimers = <<>>
    /\ upload = NoUpload
(***************************************************************************)
(* Tool Bridge: unnamed/part_001 594-668 and 860-937 (index.ts)            *)
(***************************************************************************)
\* request.params.arguments: absent, or the element the caller submits
Args(id, type, shape, points, text, textAlign, texts) ==
    [present |-> TRUE, id |-> id, type |-> type, shape |-> shape,
     points |-> points, text |-> text, textAlign |-> textAlign,
     texts |-> texts, version |-> Undefined]
NoArgs ==
    [present |-> FALSE, id |-> Undefined, type |-> Undefined, shape |-> Undefined,
     points |-> Undefined, text |-> Undefined, textAlign |-> Undefined,
     texts |-> Undefined, version |-> Undefined]

\* one request per tool that has every field its schema requires (lines 709,
\* 805, 832)
Geometry  == Args("GAbcd", "geometry", "rectangle", "pts", "A", "center", Undefined)
ArrowLine == Args("AWxyz", "arrow-line", "straight", "pts", Undefined, Undefined, "txts")
Freehand  == Args("FHijk", "freehand", "feltTipPen", "pts", Undefined, Undefined, Undefined)

ArgsSamples ==
    {NoArgs, Geometry, ArrowLine, Freehand}
    \cup {[a EXCEPT !.id = Undefined] : a \in {Geometry, ArrowLine, Freehand}}
    \cup {[Geometry EXCEPT !.type = Undefined],
          [Geometry EXCEPT !.shape = Undefined],
          [Geometry EXCEPT !.points = Undefined],
          [Geometry EXCEPT !.text = Undefined],
          [ArrowLine EXCEPT !.texts = Undefined]}

ToolNames == {"create_geometry_element", "create_arrow_line_element",
              "create_freehand_element", "delete_element"}

Request(name, args) == [name |-> name, args |-> args]
NoRequest == Request("none", NoArgs)

\* inputSchema.required of each tool (lines 709, 805, 832)
Required(name) ==
    CASE name = "create_geometry_element"
            -> {"type", "points", "text", "shape", "textAlign"}
      [] name = "create_arrow_line_element"
            -> {"type", "points", "shape", "texts"}
      [] name = "create_freehand_element"
            -> {"type", "points", "shape"}
      [] OTHER -> {}

\* the type each creation tool accepts (lines 875-894)
RequiredType(name) ==
    CASE name = "create_arrow_line_element" -> "arrow-line"
      [] name = "create_freehand_element"   -> "freehand"
      [] name = "create_geometry_element"   -> "geometry"
      [] OTHER -> Undefined

\* the handler's results: content[0].text is a message, for a success
\* followed by the element as JSON and the line "Synced to canvas"
Result(isError, message, element, synced) ==
    [isError |-> isError, message |-> message, element |-> element, synced |-> synced]
NoResult == Result(FALSE, "none", NoArgs, FALSE)
Failure(message) == Result(TRUE, message, NoArgs, FALSE)       \* 931-934
Created(element) ==                                            \* 910-921
    Result(FALSE, "Element created successfully!", element, TRUE)

\* A plausible slip (the handler's earlier revision): only the arrow-line tool
\* checks the type.
RejectionArrowOnly(name, args) ==
    IF name \notin {"create_geometry_element", "create_arrow_line_element",
                    "create_freehand_element"}
    THEN "Unknown tool"
    ELSE IF ~args.present
    THEN "TypeError: cannot read properties of undefined"
    ELSE IF ~Truthy(args.id)
    THEN "Failed to create element: id is required"
    ELSE IF name = "create_arrow_line_element" /\ args.type /= "arrow-line"
    THEN "Failed to create element: type must be arrow-line"
    ELSE ""

\* A plausible slip: the id check of lines 872-874 is left out.
RejectionNoIdCheck(name, args) ==
    IF name \notin {"create_geometry_element", "create_arrow_line_element",
                    "create_freehand_element"}
    THEN "Unknown tool"
    ELSE IF ~args.present
    THEN "TypeError: cannot read properties of undefined"
    ELSE IF name = "create_arrow_line_element" /\ args.type /= "arrow-line"
    THEN "Failed to create element: type must be arrow-line"
    ELSE IF name = "create_freehand_element" /\ args.type /= "freehand"
    THEN "Failed to create element: type must be freehand"
    ELSE IF name = "create_geometry_element" /\ args.type /= "geometry"
    THEN "Failed to create element: type must be geometry"
    ELSE ""

\* lines 867-894 and 924-925: the error thrown before the element is sent,
\* or "" when the checks pass
Rejection(name, args) ==
    IF name \notin {"create_geometry_element", "create_arrow_line_element",
                    "create_freehand_element"}
    THEN "Unknown tool"
    ELSE IF ~args.present
    THEN "TypeError: cannot read properties of undefined"     \* 872
    ELSE IF ~Truthy(args.id)
    THEN "Failed to create element: id is required"           \* 872-874
    ELSE IF name = "create_arrow_line_element" /\ args.type /= "arrow-line"
    THEN "Failed to create element: type must be arrow-line"  \* 875-882
    ELSE IF name = "create_freehand_element" /\ args.type /= "freehand"
    THEN "Failed to create element: type must be freehand"    \* 883-888
    ELSE IF name = "create_geometry_element" /\ args.type /= "geometry"
    THEN "Failed to create element: type must be geometry"    \* 889-894
    ELSE ""

\* one HTTP request to the repository and what became of it
Http(method, url, body, outcome) ==
    [method |-> method, url |-> url, body |-> body, outcome |-> outcome]

\* line 667: result?.element || elementData, syncResult being null or a body
\* whose element is absent (NoArgs) or the stored element
SyncNull == [isNull |-> TRUE, element |-> NoArgs]
SyncBody(element) == [isNull |-> FALSE, element |-> element]
\* A plausible slip: the fallback "|| elementData" of line 667 is left out.
createElementOnCanvasNoFallback(syncResult, elementData) ==
    IF ~syncResult.isNull THEN syncResult.element ELSE NoArgs

createElementOnCanvas(syncResult, elementData) ==
    IF ~syncResult.isNull /\ syncResult.element.present
    THEN syncResult.element
    ELSE elementData

\* lines 897-921: what the handler returns once createElementOnCanvas gave
\* canvasElement (an absent one is the error of lines 899-903)
Respond(canvasElement) ==
    IF ~canvasElement.present
    THEN Failure("Failed to create element: HTTP server unavailable")
    ELSE Created(canvasElement)

\* A plausible slip: the sync flag is not consulted (line 617 left out).
SyncSkippedAlwaysOn == FALSE

\* line 617: syncToCanvas returns null at once
SyncSkipped == ~ENABLE_CANVAS_SYNC

\* lines 613-641, syncToCanvas(operation, data) up to its fetch: the HTTP
\* requests it sends: none when sync is off (617-620) or the operation is
\* not "create" (635-637)
syncToCanvas(operation, data) ==
    IF SyncSkipped THEN <<>>
    ELSE IF operation = "create"
    THEN <<Http("POST", "/api/elements", data, "pending")>>
    ELSE <<>>

\* lines 860-937 up to the fetch of line 641 (or to the end, when the call
\* is rejected or the sync is skipped)
CallTool(name, args) ==
    /\ toolPc = "idle"
    /\ request' = Request(name, args)
    /\ IF Rejection(name, args) /= ""
       THEN /\ result' = Failure(Rejection(name, args))
            /\ httpRequests' = <<>>
            /\ toolPc' = "idle"
       ELSE IF syncToCanvas("create", args) = <<>>
       THEN /\ result' = Respond(createElementOnCanvas(SyncNull, args))
            /\ httpRequests' = <<>>
            /\ toolPc' = "idle"
       ELSE /\ result' = NoResult
            /\ httpRequests' = syncToCanvas("create", args)
            /\ toolPc' = "fetch"
    /\ UNCHANGED ENABLE_CANVAS_SYNC
    /\ UNCHANGED <<wsVars, boardVars, fixVars, serverVars, heapVars,
                 validVars, clearVars>>

\* lines 641, 652-659: fetch throws (the repository cannot be reached)
ToolFetchThrows ==
    /\ toolPc = "fetch"
    /\ httpRequests' = [httpRequests EXCEPT ![1].outcome = "threw"]
    /\ result' = Respond(createElementOnCanvas(SyncNull, request.args))
    /\ toolPc' = "idle"
    /\ UNCHANGED <<ENABLE_CANVAS_SYNC, request>>
    /\ UNCHANGED <<wsVars, boardVars, fixVars, serverVars, heapVars,
                 validVars, clearVars>>

\* lines 643-647, 652-659: the repository answers with a non-success status
ToolFetchNotOk ==
    /\ toolPc = "fetch"
    /\ httpRequests' = [httpRequests EXCEPT ![1].outcome = "not ok"]
    /\ result' = Respond(createElementOnCanvas(SyncNull, request.args))
    /\ toolPc' = "idle"
    /\ UNCHANGED <<ENABLE_CANVAS_SYNC, request>>
    /\ UNCHANGED <<wsVars, boardVars, fixVars, serverVars, heapVars,
                 validVars, clearVars>>

\* lines 641-649: the repository answers with a success status
ToolFetchOk ==
    /\ toolPc = "fetch"
    /\ httpRequests' = [httpRequests EXCEPT ![1].outcome = "ok"]
    /\ toolPc' = "json"
    /\ UNCHANGED <<ENABLE_CANVAS_SYNC, request, result>>
    /\ UNCHANGED <<wsVars, boardVars, fixVars, serverVars, heapVars,
                 validVars, clearVars>>

\* lines 649, 652-659: the body is not JSON
ToolJsonThrows ==
    /\ toolPc = "json"
    /\ result' = Respond(createElementOnCanvas(SyncNull, request.args))
    /\ toolPc' = "idle"
    /\ UNCHANGED <<ENABLE_CANVAS_SYNC, request, httpRequests>>
    /\ UNCHANGED <<wsVars, boardVars, fixVars, serverVars, heapVars,
                 validVars, clearVars>>

\* lines 649-651, 667: the body is JSON, with the stored element (stamped by
\* the repository) or without an element
ToolJsonResolves(withElement) ==
    /\ toolPc = "json"
    /\ LET stored == [request.args EXCEPT !.version = "1"]
           body == SyncBody(IF withElement THEN stored ELSE NoArgs)
       IN  result' = Respond(createElementOnCanvas(body, request.args))
    /\ toolPc' = "idle"
    /\ UNCHANGED <<ENABLE_CANVAS_SYNC, request, httpRequests>>
    /\ UNCHANGED <<wsVars, boardVars, fixVars, serverVars, heapVars,
                 validVars, clearVars>>

BridgeIdle ==
    /\ toolPc = "idle"
    /\ request = NoRequest
    /\ result = NoResult
    /\ httpRequests = <<>>

(***************************************************************************)
(* validateElement: unnamed/part_001 164-187 (plait-types.ts)              *)
(***************************************************************************)
\* lines 100-104, Object.values(PLAIT_ELEMENT_TYPES)
PLAIT_ELEMENT_TYPES == {"geometry", "arrow-line", "freehand"}

\* a Partial<ServerElement>: whether it has the keys type and shape
\* ("type" in element), and their values (a key may hold undefined)
Candidate(hasType, type, hasShape, shape) ==
    [hasType |-> hasType, type |-> type, hasShape |-> hasShape, shape |-> shape]

Candidates ==
    {Candidate(FALSE, Undefined, hs[1], hs[2]) :
        hs \in {<<FALSE, Undefined>>, <<TRUE, Undefined>>, <<TRUE, "rectangle">>}}
    \cup {Candidate(TRUE, t, hs[1], hs[2]) :
            t \in PLAIT_ELEMENT_TYPES \cup {Undefined, "", "text", "Geometry", "arrow"},
            hs \in {<<FALSE, Undefined>>, <<TRUE, Undefined>>, <<TRUE, "rectangle">>}}

\* how a call ends: it returns a value, or throws an Error with a message
Returns(value)  == [thrown |-> FALSE, value |-> value, message |-> ""]
Throws(message) == [thrown |-> TRUE, value |-> FALSE, message |-> message]
NoVerdict == [thrown |-> FALSE, value |-> FALSE, message |-> "not called"]

\* A plausible slip: the required-fields check of lines 171-176 is left out.
validateElementTypeOnly(element) ==
    IF element.type \notin PLAIT_ELEMENT_TYPES
    THEN Throws("Invalid element type")
    ELSE Returns(TRUE)

\* lines 168-187
validateElement(element) ==
    IF ~(element.hasType /\ element.hasShape)                    \* 171-176
    THEN Throws("Missing required fields: type, shape")
    ELSE IF element.type \notin PLAIT_ELEMENT_TYPES              \* 178-184
    THEN Throws("Invalid element type")
    ELSE Returns(TRUE)                                           \* 186

\* validateElement is called with an element
ValidateElement(element) ==
    /\ candidate' = element
    /\ verdict' = validateElement(element)
    /\ UNCHANGED elementsMap
    /\ UNCHANGED <<wsVars, boardVars, fixVars, bridgeVars, serverVars, heapVars,
                   clearVars>>

ValidIdle ==
    /\ candidate = Candidate(FALSE, Undefined, FALSE, Undefined)
    /\ verdict = NoVerdict
    /\ elementsMap = {}

(***************************************************************************)
(* clearCanvas: App.tsx 306-324                                            *)
(***************************************************************************)
\* the call: where it is, and the ids of result.elements once it has them
ClearCall(pc, ids) == [pc |-> pc, elements |-> ids]

\* lines 306-309: the button is clicked; clearCanvas runs up to its fetch
clearCanvas ==
    /\ clearCall.pc = "idle"
    /\ clearCall' = ClearCall("fetch", {})
    /\ UNCHANGED repository
    /\ UNCHANGED <<wsVars, boardVars, fixVars, bridgeVars, heapVars, validVars>>

\* lines 309, 320-323: fetch rejects
ClearFetchRejects ==
    /\ clearCall.pc = "fetch"
    /\ clearCall' = ClearCall("done", {})
    /\ UNCHANGED repository
    /\ UNCHANGED <<wsVars, boardVars, fixVars, bridgeVars, heapVars, validVars>>

\* lines 309-310: fetch resolves
ClearFetchResolves ==
    /\ clearCall.pc = "fetch"
    /\ clearCall' = ClearCall("json", {})
    /\ UNCHANGED repository
    /\ UNCHANGED <<wsVars, boardVars, fixVars, bridgeVars, heapVars, validVars>>

\* lines 310, 320-323: the body is not JSON
ClearJsonRejects ==
    /\ clearCall.pc = "json"
    /\ clearCall' = ClearCall("done", {})
    /\ UNCHANGED repository
    /\ UNCHANGED <<wsVars, boardVars, fixVars, bridgeVars, heapVars, validVars>>

\* lines 310-316: the body is {success, elements}; with success the DELETE
\* requests are sent, one per element, otherwise the call is over
ClearJsonResolves(success) ==
    /\ clearCall.pc = "json"
    /\ clearCall' = IF success
                    THEN ClearCall("delete", {repository[i].id : i \in DOMAIN repository})
                    ELSE ClearCall("done", {})
    /\ UNCHANGED repository
    /\ UNCHANGED <<wsVars, boardVars, fixVars, bridgeVars, heapVars, validVars>>

\* line 316: every DELETE resolves; the repository has removed the elements
ClearDeletesResolve ==
    /\ clearCall.pc = "delete"
    /\ clearCall' = ClearCall("done", {})
    /\ LET Stays(e) == e.id \notin clearCall.elements
       IN  repository' = SelectSeq(repository, Stays)
    /\ UNCHANGED <<wsVars, boardVars, fixVars, bridgeVars, heapVars, validVars>>

\* lines 316, 320-323: a DELETE rejects (the repository is out of reach)
ClearDeletesReject ==
    /\ clearCall.pc = "delete"
    /\ clearCall.elements /= {}
    /\ clearCall' = ClearCall("done", {})
    /\ UNCHANGED repository
    /\ UNCHANGED <<wsVars, boardVars, fixVars, bridgeVars, heapVars, validVars>>

ClearIdle == clearCall = ClearCall("idle", {})

(***************************************************************************)
(* Element Repository and its push channel, as the client meets them: the  *)
(* server stores an element that was POSTed to /api/elements (part_001     *)
(* 628) and pushes element_created to the clients connected at that        *)
(* moment; a client that is not connected gets nothing.                    *)
(***************************************************************************)
Connected == \E s \in DOMAIN sockets : sockets[s].readyState = "OPEN"

\* create: store, then notify the connected client, whose onmessage
\* (App.tsx 189-196) handles the notification
RepositoryCreate(e, newId, insertThrows) ==
    /\ Len(repository) < MaxBoard
    /\ repository' = Append(repository, e)
    /\ IF Connected
       THEN LET raw == Message(TRUE, "element_created", e)
            IN  /\ delivered' = raw
                /\ handleWebSocketMessage(raw, newId, insertThrows)
       ELSE /\ delivered' = NoMessage
            /\ UNCHANGED board
    /\ UNCHANGED <<boardRef, elements, syncStatus, lastSyncTime, syncCalls,
                   resetTimers, upload>>
    /\ UNCHANGED <<wsVars, fixVars, bridgeVars, heapVars,
                 validVars, clearVars>>

\* the message a server may send to a client that has just connected
InitialElements == Message(TRUE, "initial_elements", UndefinedElement)

ServerIdle == repository = <<>>

(***************************************************************************)
(* Specifications                                                          *)
(***************************************************************************)
\* ---- the Connection Supervisor
Init ==
    /\ WsIdle
    /\ BoardIdle
    /\ FixIdle
    /\ BridgeIdle /\ ENABLE_CANVAS_SYNC = TRUE
    /\ ServerIdle
    /\ HeapIdle
    /\ ValidIdle
    /\ ClearIdle

Next ==
    \/ Mount
    \/ Cleanup
    \/ Rerun
    \/ TimerFires
    \/ \E s \in DOMAIN sockets : OnOpen(s)
    \/ \E s \in DOMAIN sockets : OnError(s)
    \/ \E s \in DOMAIN sockets : OnCloseAfterError(s)
    \/ \E s \in DOMAIN sockets : \E code \in ServerCloseCodes : OnServerClose(s, code)
    \/ \E s \in DOMAIN sockets : OnClientClose(s)

Spec == Init /\ [][Next]_vars

\* ---- the Connection Supervisor while the server is reachable: every
\* connection attempt is answered, no open socket is closed by the server;
\* the only failures are those of sockets the cleanup closed while they were
\* connecting.  Timers fire and socket events are dispatched (weak fairness);
\* mounting and unmounting are up to React.
ClosedWhileConnecting(s) ==
    /\ sockets[s].readyState = "CLOSING"
    /\ ~sockets[s].wasOpen
    /\ OnError(s)

LiveNext ==
    \/ Mount
    \/ Cleanup
    \/ Rerun
    \/ TimerFires
    \/ \E s \in DOMAIN sockets : OnOpen(s)
    \/ \E s \in DOMAIN sockets : ClosedWhileConnecting(s)
    \/ \E s \in DOMAIN sockets : OnCloseAfterError(s)
    \/ \E s \in DOMAIN sockets : OnClientClose(s)

LiveSpec ==
    /\ Init
    /\ [][LiveNext]_vars
    /\ WF_vars(TimerFires)
    /\ WF_vars(\E s \in DOMAIN sockets : OnOpen(s))
    /\ WF_vars(\E s \in DOMAIN sockets : ClosedWhileConnecting(s))
    /\ WF_vars(\E s \in DOMAIN sockets : OnCloseAfterError(s))
    /\ WF_vars(\E s \in DOMAIN sockets : OnClientClose(s))

\* ---- the client once its socket is open: messages, board, bulk upload
BoardInit ==
    /\ sockets = <<Socket("OPEN", TRUE, 0)>>
    /\ websocketRef = 1
    /\ isConnected = TRUE
    /\ timers = <<>>
    /\ effect = "mounted"
    /\ wsEvent = Event("open", 1, 0)
    /\ BoardIdle
    /\ FixIdle
    /\ BridgeIdle /\ ENABLE_CANVAS_SYNC = TRUE
    /\ ServerIdle
    /\ HeapIdle
    /\ ValidIdle
    /\ ClearIdle

BoardNext ==
    \/ afterInit
    \/ \E raw \in Messages : \E newId \in IdCreatorIds : \E insertThrows \in BOOLEAN :
          OnMessage(raw, newId, insertThrows)
    \/ \E e \in LocalElements : LocalDraw(e)
    \/ syncToBackend
    \/ \E n \in DOMAIN syncCalls : SyncFetchRejects(n)
    \/ \E n \in DOMAIN syncCalls : \E ok \in BOOLEAN : \E parses \in BOOLEAN :
          SyncFetchResolves(n, ok, parses)
    \/ \E n \in DOMAIN syncCalls : SyncJsonResolves(n)
    \/ \E n \in DOMAIN syncCalls : SyncJsonRejects(n)
    \/ ResetTimerFires

BoardSpec == BoardInit /\ [][BoardNext]_vars

\* ---- the client across a disconnect: its board is initialised and its
\* socket open; the repository goes on creating geometries and arrow-lines,
\* the supervisor reconnects, the server greets the new socket
ResyncInit ==
    /\ sockets = <<Socket("OPEN", TRUE, 0)>>
    /\ websocketRef = 1
    /\ isConnected = TRUE
    /\ timers = <<>>
    /\ effect = "mounted"
    /\ wsEvent = Event("open", 1, 0)
    /\ boardRef = TRUE
    /\ board = <<>>
    /\ elements = <<>>
    /\ delivered = NoMessage
    /\ syncStatus = "idle"
    /\ lastSyncTime = 0
    /\ syncCalls = <<>>
    /\ resetTimers = <<>>
    /\ upload = NoUpload
    /\ FixIdle
    /\ BridgeIdle /\ ENABLE_CANVAS_SYNC = TRUE
    /\ ServerIdle
    /\ HeapIdle
    /\ ValidIdle
    /\ ClearIdle

ResyncNext ==
    \/ \E e \in {G1, A1} : \E newId \in IdCreatorIds :
          RepositoryCreate(e, newId, FALSE)
    \/ \E newId \in IdCreatorIds : OnMessage(InitialElements, newId, FALSE)
    \/ \E s \in DOMAIN sockets : \E code \in ServerCloseCodes : OnServerClose(s, code)
    \/ \E s \in DOMAIN sockets : OnError(s)
    \/ \E s \in DOMAIN sockets : OnCloseAfterError(s)
    \/ TimerFires
    \/ \E s \in DOMAIN sockets : OnOpen(s)

ResyncSpec == ResyncInit /\ [][ResyncNext]_vars

\* ---- the Binding Validator on every batch
FixInit ==
    /\ WsIdle
    /\ BoardIdle
    /\ BridgeIdle /\ ENABLE_CANVAS_SYNC = TRUE
    /\ ServerIdle
    /\ HeapIdle
    /\ ValidIdle
    /\ ClearIdle
    /\ batch \in Batches
    /\ fixed = <<>>
    /\ refixed = <<>>
    /\ fixPc = "input"

FixNext == Validate \/ Revalidate

FixSpec == FixInit /\ [][FixNext]_vars

\* ---- the Binding Validator on the objects of every batch
HeapInit ==
    /\ WsIdle
    /\ BoardIdle
    /\ BridgeIdle /\ ENABLE_CANVAS_SYNC = TRUE
    /\ ServerIdle
    /\ batch \in Batches
    /\ fixed = <<>>
    /\ refixed = <<>>
    /\ fixPc = "input"
    /\ heap = Load(batch)
    /\ returnedRef = 0
    /\ ValidIdle
    /\ ClearIdle

HeapNext == ValidateOnHeap

HeapSpec == HeapInit /\ [][HeapNext]_vars

\* ---- validateElement on every candidate, whatever the Map elements holds
ValidInit ==
    /\ WsIdle
    /\ BoardIdle
    /\ FixIdle
    /\ BridgeIdle /\ ENABLE_CANVAS_SYNC = TRUE
    /\ ServerIdle
    /\ HeapIdle
    /\ ClearIdle
    /\ candidate = Candidate(FALSE, Undefined, FALSE, Undefined)
    /\ verdict = NoVerdict
    /\ elementsMap \in SUBSET {"GAbcd", "AWxyz"}

ValidNext == \E element \in Candidates : ValidateElement(element)

ValidSpec == ValidInit /\ [][ValidNext]_vars

\* ---- the client with elements on its board and in the repository, and the
\* Clear Canvas button
ClearNext ==
    \/ \E e \in {G1, A1} : \E newId \in IdCreatorIds :
          RepositoryCreate(e, newId, FALSE)
    \/ \E e \in LocalElements : LocalDraw(e)
    \/ clearCanvas
    \/ ClearFetchRejects
    \/ ClearFetchResolves
    \/ ClearJsonRejects
    \/ \E success \in BOOLEAN : ClearJsonResolves(success)
    \/ ClearDeletesResolve
    \/ ClearDeletesReject

ClearSpec == ResyncInit /\ [][ClearNext]_vars

\* ---- the Tool Bridge under either configuration
BridgeInit ==
    /\ WsIdle
    /\ BoardIdle
    /\ FixIdle
    /\ BridgeIdle
    /\ ENABLE_CANVAS_SYNC \in BOOLEAN
    /\ ServerIdle
    /\ HeapIdle
    /\ ValidIdle
    /\ ClearIdle

BridgeNext ==
    \/ \E name \in ToolNames : \E args \in ArgsSamples : CallTool(name, args)
    \/ ToolFetchThrows
    \/ ToolFetchNotOk
    \/ ToolFetchOk
    \/ ToolJsonThrows
    \/ \E withElement \in BOOLEAN : ToolJsonResolves(withElement)

BridgeSpec == BridgeInit /\ [][BridgeNext]_vars
(***************************************************************************)
(* Claims                                                                  *)
(***************************************************************************)
CreationTools == {"create_geometry_element", "create_arrow_line_element",
                  "create_freehand_element"}

\* a creation request that follows its tool's schema
WellFormed(req) ==
    \/ req = Request("create_geometry_element", Geometry)
    \/ req = Request("create_arrow_line_element", ArrowLine)
    \/ req = Request("create_freehand_element", Freehand)

\* the handler has returned for the request
Returned == toolPc = "idle" /\ request /= NoRequest

\* C1: at any time at most one WebSocket of the client is CONNECTING or
\* OPEN: connectWebSocket never creates a socket while an earlier one is
\* still connecting or open.  (Spec)
C1_AtMostOneLiveSocket ==
    Cardinality({s \in DOMAIN sockets : Live(s)}) <= 1

\* C2: with sync enabled and the repository unreachable (fetch throws, or a
\* non-success status), a well-formed creation request returns a result
\* marked isError whose text includes the submitted element.  (BridgeSpec)
C2_UnreachableIsFailure ==
    ( /\ Returned
      /\ ENABLE_CANVAS_SYNC
      /\ WellFormed(request)
      /\ httpRequests /= <<>>
      /\ httpRequests[1].outcome \in {"threw", "not ok"} )
    => result.isError /\ result.element = request.args

\* C3: with sync disabled, a well-formed creation request returns a
\* non-error result holding the submitted element unchanged, and no HTTP
\* request is made to the repository at any point of the call.  (BridgeSpec)
C3_SyncDisabledCreates ==
    ~ENABLE_CANVAS_SYNC =>
        /\ httpRequests = <<>>
        /\ toolPc = "idle"
        /\ (request /= NoRequest /\ WellFormed(request)) =>
                /\ ~result.isError
                /\ result.element = request.args

C3_Witness ==
    /\ ~ENABLE_CANVAS_SYNC
    /\ request = Request("create_arrow_line_element", ArrowLine)
    /\ result = Created(ArrowLine)

\* C4: every element that element_created delivered is on the board as the
\* Binding Validator leaves it: the board is a fixed point of
\* validateAndFixBindings, no unvalidated binding reaches it.  (BoardSpec)
C4_BoardValidated == validateAndFixBindings(board) = board

\* C5: validateAndFixBindings is idempotent: running it on its own output
\* changes nothing, for every batch.  (FixSpec)
C5_Idempotent == fixPc = "refixed" => refixed = fixed

\* a batch with a duplicate id that the first run repaired
C5_Witness ==
    /\ fixPc = "refixed"
    /\ fixed /= batch
    /\ Len(batch) = 2
    /\ batch[1].id = batch[2].id

C7_UploadIsDiagram ==
    [][Len(syncCalls') > Len(syncCalls)
            => upload' = Uploaded(ActiveElements(board))]_vars

\* C8: the element inserted into the board on element_created has the id of
\* the element the notification carried.  (BoardSpec)
C8_IdKept ==
    [][ ( /\ delivered'.json
          /\ delivered'.type = "element_created"
          /\ Len(board') = Len(board) + 1
          /\ board'[Len(board')] /= UndefinedElement )
        => board'[Len(board')].id = delivered'.element.id ]_vars

\* C9: a close event with a code other than 1000 schedules exactly one
\* reconnect, 3000 ms later; a close event with code 1000 schedules none; an
\* error event schedules none.  (Spec)
C9_ReconnectScheduling ==
    [][ /\ (wsEvent'.kind = "close" /\ wsEvent'.code /= 1000)
            => timers' = Append(timers, 3000)
        /\ (wsEvent'.kind = "close" /\ wsEvent'.code = 1000)
            => timers' = timers
        /\ wsEvent'.kind = "error" => timers' = timers ]_vars

\* an unclean close has armed the one reconnect timer
C9_Witness ==
    /\ wsEvent.kind = "close"
    /\ wsEvent.code = 1001
    /\ timers = <<3000>>

\* the error that names the type a tool requires
TypeError(name) ==
    CASE name = "create_geometry_element"
            -> "Failed to create element: type must be geometry"
      [] name = "create_arrow_line_element"
            -> "Failed to create element: type must be arrow-line"
      [] name = "create_freehand_element"
            -> "Failed to create element: type must be freehand"

\* a call of a creation tool whose params.type is not the tool's type
TypeMismatch(req) ==
    /\ req.name \in CreationTools
    /\ req.args.present
    /\ req.args.type /= RequiredType(req.name)

\* C10 as stated: a call whose params.type does not match the tool returns
\* an error naming the required type, and makes no HTTP request.  (BridgeSpec)
C10_MismatchNamesType ==
    (request /= NoRequest /\ TypeMismatch(request)) =>
        /\ Returned
        /\ result = Failure(TypeError(request.name))
        /\ httpRequests = <<>>

\* C10 amended: such a call is rejected with no HTTP request made; the error
\* names the required type when the call carries an id, and says that id is
\* required when it does not.  (BridgeSpec)
C10_MismatchRejected ==
    (request /= NoRequest /\ TypeMismatch(request)) =>
        /\ Returned
        /\ httpRequests = <<>>
        /\ result = Failure(IF Truthy(request.args.id)
                            THEN TypeError(request.name)
                            ELSE "Failed to create element: id is required")

C10_Witness ==
    /\ request = Request("create_geometry_element", ArrowLine)
    /\ result = Failure("Failed to create element: type must be geometry")
    /\ httpRequests = <<>>

\* a call of a creation tool that leaves out a field the tool's schema
\* declares required
MissingRequired(req) ==
    /\ req.name \in CreationTools
    /\ req.args.present
    /\ \E f \in Required(req.name) : req.args[f] = Undefined

\* C11: a call that omits a field its tool's schema declares required
\* (points, shape, text of a geometry, texts of an arrow-line) is rejected
\* with an error, and no HTTP request is made to the repository.  (BridgeSpec)
C11_MissingFieldRejected ==
    (request /= NoRequest /\ MissingRequired(request)) =>
        /\ Returned
        /\ result.isError
        /\ httpRequests = <<>>

\* the closed set of element types
ElementTypes == {"geometry", "arrow-line", "freehand"}

\* C12: for every element_created message whose element has a type of
\* {geometry, arrow-line, freehand}, the client (its board initialised)
\* appends exactly one element of that type at the end of the board and
\* leaves the elements already there unchanged and in order.  (BoardSpec)
C12_AppendsOneOfType ==
    [][ ( /\ delivered'.json
          /\ delivered'.type = "element_created"
          /\ delivered'.element.type \in ElementTypes
          /\ boardRef )
        => /\ Len(board') = Len(board) + 1
           /\ SubSeq(board', 1, Len(board)) = board
           /\ board'[Len(board')].type = delivered'.element.type ]_vars

\* the element carries a bookkeeping field the server stamped
Stamped(el) ==
    \/ el.createdAt /= Undefined
    \/ el.updatedAt /= Undefined
    \/ el.version /= Undefined
    \/ el.syncedAt /= Undefined
    \/ el.syncTimestamp /= Undefined
    \/ el.source.tag = "origin"

\* C13: the server bookkeeping fields (createdAt, updatedAt, version,
\* syncedAt, the origin tag source, syncTimestamp) are stripped before a
\* server-delivered element is inserted: no element of the board carries
\* any of them.  (BoardSpec)
C13_BookkeepingStripped ==
    \A i \in DOMAIN board : ~Stamped(board[i])

\* the current socket is one that connectWebSocket opened after an earlier
\* socket went away
Reconnected ==
    /\ websocketRef > 1
    /\ sockets[websocketRef].readyState = "OPEN"

\* what a list of elements shows, whatever ids the client gave them
Types(els) == [i \in DOMAIN els |-> els[i].type]

\* C14: once the push channel is re-established after a disconnect and the
\* server has greeted the new socket, the client's projection is the
\* repository's current element set: elements created while the client was
\* disconnected are in it.  (ResyncSpec)
C14_ResyncOnReconnect ==
    [][ ( /\ Reconnected'
          /\ delivered'.type = "initial_elements"
          /\ delivered.type /= "initial_elements" )
        => Types(board') = Types(repository') ]_vars

\* the message types handleWebSocketMessage has a case for
KnownTypes == {"element_created", "elements_synced", "sync_status"}

\* a message that is not JSON, has an unknown type, or is element_created
\* without an element
BadMessage(raw) ==
    /\ raw /= NoMessage
    /\ \/ ~raw.json
       \/ raw.type \notin KnownTypes
       \/ raw.type = "element_created" /\ raw.element = UndefinedElement

\* C15: a push message that is not parseable JSON, has an unknown type, or
\* is element_created without an element is discarded: the step that
\* handles it changes nothing of the client (board, sync state), the socket
\* stays open, isConnected and the reconnect timers are as before, so the
\* socket goes on receiving messages.  (BoardSpec)
C15_BadMessageDiscarded ==
    [][ BadMessage(delivered')
        => /\ board' = board
           /\ <<boardRef, elements, syncStatus, lastSyncTime, syncCalls,
                 resetTimers, upload>>'
                = <<boardRef, elements, syncStatus, lastSyncTime, syncCalls,
                    resetTimers, upload>>
           /\ <<sockets, websocketRef, isConnected, timers>>'
                = <<sockets, websocketRef, isConnected, timers>>
           /\ Connected' ]_vars

\* an element_created without an element was handled on a board that holds
\* an element
C15_Witness ==
    /\ delivered = Message(TRUE, "element_created", UndefinedElement)
    /\ boardRef
    /\ Len(board) = 1
    /\ Connected

\* C16: handling an elements_synced or a sync_status message changes
\* neither the board (nor the elements state) nor syncStatus nor
\* lastSyncTime: the client's own upload is not applied again.  (BoardSpec)
C16_AcksChangeNothing ==
    [][ (delivered'.json /\ delivered'.type \in {"elements_synced", "sync_status"})
        => /\ board' = board
           /\ elements' = elements
           /\ syncStatus' = syncStatus
           /\ lastSyncTime' = lastSyncTime ]_vars

\* the ack of an upload arrived while that upload was still in flight, the
\* board holding an element
C16_Witness ==
    /\ delivered = Message(TRUE, "elements_synced", UndefinedElement)
    /\ syncStatus = "syncing"
    /\ Len(board) = 1

\* the ids of a batch
BatchIds(els) == {els[i].id : i \in DOMAIN els}

\* C17: validateAndFixBindings returns a batch of the same length and
\* order in which every element equals its input element in every field
\* except boundElements and containerId; an arrow-line's source.boundId is
\* left as it is, also when it names an element absent from the batch.
\* (FixSpec)
C17_OnlyBindingsChange ==
    fixPc /= "input" =>
        /\ Len(fixed) = Len(batch)
        /\ \A i \in DOMAIN batch :
                [fixed[i] EXCEPT !.boundElements = batch[i].boundElements,
                                 !.containerId = batch[i].containerId]
                    = batch[i]

\* a repaired element whose boundId names no element of the batch
C17_Witness ==
    /\ fixPc = "fixed"
    /\ Len(batch) = 2
    /\ fixed[2] /= batch[2]
    /\ batch[2].boundId = "b"
    /\ fixed[2].boundId = "b"
    /\ "b" \notin BatchIds(batch)

\* an entry the validator is to keep: an object of type text or arrow whose
\* id is the id of an element of the batch
ValidEntry(b, els) ==
    /\ b.tag = "object"
    /\ b.type \in {"text", "arrow"}
    /\ b.id \in BatchIds(els)

\* C19: an element whose boundElements is a list with no entry left after
\* filtering (an empty list on input included) has boundElements absent
\* (null) in the output; no output element has an empty list.  (FixSpec)
C19_EmptyBecomesAbsent ==
    fixPc /= "input" =>
        \A i \in DOMAIN batch :
            /\ fixed[i].boundElements /= BEArray(<<>>)
            /\ ( /\ IsArray(batch[i].boundElements)
                 /\ \A k \in DOMAIN batch[i].boundElements.items :
                        ~ValidEntry(batch[i].boundElements.items[k], batch) )
               => fixed[i].boundElements = BENull

\* an empty list and a list emptied by the filter, both now null
C19_Witness ==
    /\ fixPc = "fixed"
    /\ Len(batch) = 2
    /\ batch[1].boundElements = BEArray(<<>>)
    /\ batch[2].boundElements = BEArray(<<Binding("a", "text")>>)
    /\ fixed[1].boundElements = BENull
    /\ fixed[2].boundElements = BENull

\* C20: of a boundElements list the validator drops every entry whose type
\* is outside {text, arrow}, whether or not its id names an element of the
\* batch, and keeps, in order, every entry of type text or arrow whose id
\* names an element of the batch.  (FixSpec)
C20_TypeFiltering ==
    fixPc /= "input" =>
        \A i \in DOMAIN batch :
            IsArray(batch[i].boundElements) =>
                LET Valid(b) == ValidEntry(b, batch)
                IN  fixed[i].boundElements.items
                        = SelectSeq(batch[i].boundElements.items, Valid)

\* a video entry naming an element of the batch is dropped, the arrow entry
\* next to it is kept
C20_Witness ==
    /\ fixPc = "fixed"
    /\ BatchIds(batch) = {"a", "b"}
    /\ batch[1].boundElements
            = BEArray(<<Binding("b", "arrow"), Binding("a", "video")>>)
    /\ fixed[1].boundElements = BEArray(<<Binding("b", "arrow")>>)

\* C18: validateAndFixBindings does not mutate its input: after the call
\* the input array, each input element and each input boundElements list
\* are what they were before it, and the returned array and its elements
\* are new objects.  (HeapSpec)
C18_InputNotMutated ==
    returnedRef /= 0 =>
        /\ \A a \in DOMAIN Load(batch) : heap[a] = Load(batch)[a]
        /\ returnedRef \notin DOMAIN Load(batch)
        /\ \A i \in DOMAIN heap[returnedRef].items :
                heap[returnedRef].items[i] \notin DOMAIN Load(batch)

\* the call returned a repaired batch of two, the input still as it was
C18_Witness ==
    /\ returnedRef /= 0
    /\ Len(batch) = 2
    /\ Deref(heap, InputRef) = batch
    /\ Deref(heap, returnedRef) = validateAndFixBindings(batch)
    /\ Deref(heap, returnedRef)[1] /= batch[1]
    /\ Deref(heap, returnedRef)[2] /= batch[2]

\* call n of syncToBackend ends in this step
Completes(n) == syncCalls[n].pc /= "done" /\ syncCalls'[n].pc = "done"

\* what ends it is a failure: fetch rejected (the call was still at its
\* fetch), a non-success status, or a body that is not JSON
UploadFailed(n) ==
    \/ syncCalls[n].pc = "fetch"
    \/ ~syncCalls[n].ok
    \/ ~syncCalls[n].parses

\* C21: a bulk upload that fails (network failure, non-success response,
\* unparseable body) ends with syncStatus = "error", and lastSyncTime
\* changes only in the step that ends a successful upload.  (BoardSpec)
C21_FailedUploadIsError ==
    [][ /\ \A n \in DOMAIN syncCalls :
              (Completes(n) /\ UploadFailed(n))
                  => syncStatus' = "error" /\ lastSyncTime' = lastSyncTime
        /\ lastSyncTime' /= lastSyncTime
              => \E n \in DOMAIN syncCalls : Completes(n) /\ ~UploadFailed(n) ]_vars

\* a second upload failed after a first had succeeded
C21_Witness ==
    /\ Len(syncCalls) = 2
    /\ syncCalls[1].pc = "done"
    /\ syncCalls[2].pc = "done"
    /\ syncStatus = "error"
    /\ lastSyncTime = 1

\* the uploads in flight
InFlight == {n \in DOMAIN syncCalls : syncCalls[n].pc /= "done"}

\* C24: syncStatus is "syncing" for the whole time an upload is in flight,
\* so at most one upload is in flight at a time: the reset timer of an
\* earlier successful sync does not change the status of a later sync that
\* is still in flight.  (BoardSpec)
C24_SyncingWhileInFlight ==
    /\ InFlight /= {} => syncStatus = "syncing"
    /\ Cardinality(InFlight) <= 1

\* operations syncToCanvas has no case for
OtherOperations == {"update", "delete"}

\* C22: the handler returns a result for every call; an unknown tool name
\* or a missing id gives a result with isError and a message, no HTTP
\* request made; and syncToCanvas with an operation other than "create"
\* makes no HTTP request, with sync on or off.  (BridgeSpec)
C22_UnknownRejected ==
    /\ Returned => result /= NoResult
    /\ ( /\ request /= NoRequest
         /\ \/ request.name \notin CreationTools
            \/ ~Truthy(request.args.id) )
       => /\ Returned
          /\ result.isError
          /\ result.message /= ""
          /\ httpRequests = <<>>
    /\ \A operation \in OtherOperations :
            syncToCanvas(operation, request.args) = <<>>

\* a freehand call without id was rejected while sync was on
C22_Witness ==
    /\ ENABLE_CANVAS_SYNC
    /\ request = Request("create_freehand_element", [Freehand EXCEPT !.id = Undefined])
    /\ result = Failure("Failed to create element: id is required")
    /\ httpRequests = <<>>

\* C27: the result says that the element was synced to the canvas only
\* when the repository confirmed the write (the POST was answered with a
\* success status); a result produced with sync disabled or after a failed
\* repository call does not say so.  (BridgeSpec)
C27_SyncedOnlyWhenConfirmed ==
    (Returned /\ ~result.isError /\ result.synced) =>
        /\ httpRequests /= <<>>
        /\ httpRequests[1].outcome = "ok"

\* C29: for every call that passes the id and type checks,
\* createElementOnCanvas returns an element whatever the repository does
\* (sync disabled, unreachable, non-success status, a success response
\* without an element): the call succeeds, and the error "Failed to create
\* element: HTTP server unavailable" is never returned.  (BridgeSpec)
C29_NeverUnavailable ==
    /\ result.message /= "Failed to create element: HTTP server unavailable"
    /\ (Returned /\ Rejection(request.name, request.args) = "") =>
            /\ ~result.isError
            /\ result.element.present

\* the repository answered with a non-success status and the call still
\* returned the submitted element
C29_Witness ==
    /\ Returned
    /\ request = Request("create_geometry_element", Geometry)
    /\ httpRequests /= <<>>
    /\ httpRequests[1].outcome = "not ok"
    /\ result = Created(Geometry)

\* C25: once the effect's cleanup has run (unmount), and for as long as the
\* component stays unmounted, no reconnect timer is armed and no WebSocket
\* is created.  (Spec)
C25_NoReconnectAfterUnmount ==
    [][ (effect = "cleaned" /\ effect' = "cleaned")
        => /\ Len(timers') <= Len(timers)
           /\ Len(sockets') = Len(sockets) ]_vars

\* C26: a close or error event of a socket that is no longer
\* websocketRef.current does not set isConnected to false while the current
\* socket is open.  (Spec)
C26_StatusMatchesCurrentSocket ==
    [][ ( /\ wsEvent'.kind \in {"close", "error"}
          /\ websocketRef /= 0
          /\ wsEvent'.sock /= websocketRef
          /\ sockets[websocketRef].readyState = "OPEN"
          /\ isConnected )
        => isConnected' ]_vars

\* C28: with the server reachable, a mounted client that is not connected
\* eventually has isConnected = true again (or is unmounted, or has used up
\* the sockets of this model), timers and socket events being dispatched
\* fairly.  (LiveSpec)
C28_EventuallyConnected ==
    (effect = "mounted" /\ ~isConnected)
        ~> (isConnected \/ effect /= "mounted" \/ Len(sockets) = MaxSockets)

\* C23: validateElement throws when the element lacks the field type or the
\* field shape, or when its type is not one of geometry, arrow-line,
\* freehand; it returns true for every other element; and it leaves the
\* Map elements as it was.  (ValidSpec)
C23_ValidateElement ==
    [][ verdict' /= NoVerdict
        => /\ verdict'.thrown
                <=> \/ ~candidate'.hasType
                    \/ ~candidate'.hasShape
                    \/ candidate'.type \notin {"geometry", "arrow-line", "freehand"}
           /\ ~verdict'.thrown => verdict'.value = TRUE
           /\ verdict'.thrown => verdict'.message /= ""
           /\ elementsMap' = elementsMap ]_vars

\* a geometry without the field shape was refused, the Map holding an element
C23_Witness ==
    /\ candidate = Candidate(TRUE, "geometry", FALSE, Undefined)
    /\ verdict = Throws("Missing required fields: type, shape")
    /\ elementsMap = {"GAbcd"}

\* C30: once clearCanvas is over, the client's local canvas is empty,
\* whether the repository's elements were deleted or the backend calls
\* failed.  (ClearSpec)
C30_LocalCanvasCleared ==
    clearCall.pc = "done" => board = <<>>
====
